---- MODULE Spec2Model ----
(***************************************************************************)
(* A model of checke-rs: the bitboard position (board.rs), the move        *)
(* tables, validator and move iterator (position.rs), the turn (turn.rs)   *)
(* and the Board state stack with push_turn / pop_turn.                    *)
(*                                                                         *)
(* A BitBoard (u64) is the set of its set bit indexes, a subset of 0..63;  *)
(* & | ^ are intersection, union and symmetric difference.  A MonoBitBoard *)
(* (exactly one bit set) is that bit's index.                              *)
(*                                                                         *)
(* Spec drives a Board with push_turn / pop_turn, IterSpec a MoveIter,     *)
(* BuilderSpec a BoardBuilder, and ConvSpec calls one constructor or       *)
(* conversion (MonoBitBoard, Square, Move, Turn) once on one input; a text *)
(* (&str) is the sequence of its characters.  GameSpec plays games on      *)
(* small built Boards to their end: accepted turns only, none popped.      *)
(***************************************************************************)
EXTENDS Integers, Sequences, FiniteSets, TLC

\* ------------------------------------------------------------------ bounds
\* The deepest state stack explored (push_turn is not taken beyond it).
MaxDepth == 4
\* The longest multi-move Turn drawn from ChainMoves.
MaxTurnLen == 3
\* The most calls made on a BoardBuilder before build().
MaxCalls == 3
\* The longest text given to Square::try_from.
MaxSquareTextLen == 3
\* The longest text on either side of the separator of a move notation.
MaxNumberLen == 2
\* The most moves given to Turn::new and segments given to
\* Turn::from_notation.
MaxSegments == 2

\* ------------------------------------------------------------- bitboard.rs
BitXor(a, b) == (a \ b) \cup (b \ a)

\* CellIter: the bit range 0..64 still to scan.
CellIter_new(bitboard) == [bitboard |-> bitboard, iter |-> 0]

\* value - 1 on a u64: the borrow runs through the zero bits below the lowest
\* set bit.  On 0 the subtraction overflows: a panic where overflow is
\* checked, all ones where it wraps.
sub_one(value) ==
    IF value = {} THEN [overflow |-> TRUE, value |-> 0..63]
    ELSE LET borrow(low) ==
                 [overflow |-> FALSE,
                  value |-> (value \ {low}) \cup (0..(low - 1))]
         IN  borrow(CHOOSE i \in value : \A j \in value : i <= j)

\* Faulty variant of MonoBitBoard::new: value - 1 is evaluated without the
\* value != 0 guard.
MonoBitBoard_new_unguarded(value) ==
    LET check(minus_one) ==
            IF value \cap minus_one.value = {}
            THEN [ok |-> TRUE,
                  cell |-> IF value = {} THEN 64 ELSE CHOOSE i \in value : TRUE,
                  overflow |-> minus_one.overflow]
            ELSE [ok |-> FALSE, cell |-> 64, overflow |-> minus_one.overflow]
    IN  check(sub_one(value))

\* MonoBitBoard::new: value != 0 && (value & (value - 1)) == 0; the second
\* operand of && is evaluated only when the first is true.  cell is the bit
\* of the MonoBitBoard, 64 for Err(MonoBitBoardError); overflow tells
\* whether a subtraction that was evaluated overflowed.
MonoBitBoard_new(value) ==
    IF value = {} THEN [ok |-> FALSE, cell |-> 64, overflow |-> FALSE]
    ELSE LET check(minus_one) ==
                 IF value \cap minus_one.value = {}
                 THEN [ok |-> TRUE, cell |-> CHOOSE i \in value : TRUE,
                       overflow |-> minus_one.overflow]
                 ELSE [ok |-> FALSE, cell |-> 64,
                       overflow |-> minus_one.overflow]
         IN  check(sub_one(value))

\* impl TryFrom<BitBoard> for MonoBitBoard
MonoBitBoard_try_from(bitboard) == MonoBitBoard_new(bitboard)

\* Faulty variant of CellIter::next: the range scanned is 0..63.
CellIter_next_short_range(it) ==
    LET yield(index) ==
            [item |-> index, it |-> [it EXCEPT !.iter = index + 1]]
        find(rest) ==
            IF rest = {}
            THEN [item |-> 64, it |-> [it EXCEPT !.iter = 64]]
            ELSE yield(CHOOSE i \in rest : \A j \in rest : i <= j)
    IN  find({i \in it.bitboard : i >= it.iter /\ i < 63})

\* CellIter::next: the first index of the remaining range whose bit is set;
\* the range then resumes after it.  64 stands for None.
CellIter_next(it) ==
    LET yield(index) ==
            [item |-> index, it |-> [it EXCEPT !.iter = index + 1]]
        find(rest) ==
            IF rest = {}
            THEN [item |-> 64, it |-> [it EXCEPT !.iter = 64]]
            ELSE yield(CHOOSE i \in rest : \A j \in rest : i <= j)
    IN  find({i \in it.bitboard : i >= it.iter})

RECURSIVE CellIter_collect(_)
CellIter_collect(it) ==
    LET go(n) ==
            IF n.item = 64 THEN <<>>
            ELSE <<n.item>> \o CellIter_collect(n.it)
    IN  go(CellIter_next(it))

\* BitBoard::used_cells, drained: the set bits in ascending order.
used_cells(bitboard) == CellIter_collect(CellIter_new(bitboard))

\* ------------------------------------------------------------- position.rs
\* impl From<Square> for MonoBitBoard: the bit of squares 1..32.
SquareBits ==
    << 62, 60, 58, 56, 55, 53, 51, 49, 46, 44, 42, 40, 39, 37, 35, 33,
       30, 28, 26, 24, 23, 21, 19, 17, 14, 12, 10, 8, 7, 5, 3, 1 >>

\* Faulty variant of the conversion: Square::Ten is given 0x10000000000,
\* the value of Square::Twelve.
MonoBitBoard_from_ten_as_twelve(square) ==
    IF square = 10 THEN SquareBits[12] ELSE SquareBits[square]

\* Faulty variant of the conversion: Square::Six is given the bit of
\* Square::Five.
MonoBitBoard_from_shared_bit(square) ==
    IF square = 6 THEN SquareBits[5] ELSE SquareBits[square]

MonoBitBoard_from(square) == SquareBits[square]

\* impl TryFrom<u8> for Square (0 stands for Err(OutOfRange)).
Square_try_from_u8(value) == IF value \in 1..32 THEN value ELSE 0

\* Square::to_number: the discriminant of the Square.
Square_to_number(square) == square

\* A text (&str) is the sequence of its characters.
DecimalDigits == <<"0", "1", "2", "3", "4", "5", "6", "7", "8", "9">>

is_digit(c) == \E i \in 1..10 : DecimalDigits[i] = c

to_digit(c) == (CHOOSE i \in 1..10 : DecimalDigits[i] = c) - 1

\* The digit loop of text.parse::<u8>(): a character that is no digit, or
\* a value above u8::MAX, ends it with an error (256).
RECURSIVE parse_digits(_, _)
parse_digits(digits, acc) ==
    IF digits = <<>> THEN acc
    ELSE IF ~is_digit(Head(digits)) THEN 256
    ELSE IF acc * 10 + to_digit(Head(digits)) > 255 THEN 256
    ELSE parse_digits(Tail(digits), acc * 10 + to_digit(Head(digits)))

\* text.parse::<u8>(): an optional '+' and then one or more decimal digits
\* whose value fits a u8.
parse_u8(text) ==
    LET finish(value) ==
            IF value = 256 THEN [ok |-> FALSE, value |-> 0]
            ELSE [ok |-> TRUE, value |-> value]
    IN  IF text = <<>> THEN [ok |-> FALSE, value |-> 0]
        ELSE IF Len(text) = 1 /\ text[1] \in {"+", "-"}
             THEN [ok |-> FALSE, value |-> 0]
        ELSE IF text[1] = "+" THEN finish(parse_digits(Tail(text), 0))
        ELSE finish(parse_digits(text, 0))

\* impl TryFrom<&str> for Square
Square_try_from_str(text) ==
    LET convert(parsed) ==
            IF ~parsed.ok THEN [ok |-> FALSE, err |-> "InvalidFormat"]
            ELSE IF Square_try_from_u8(parsed.value) = 0
                 THEN [ok |-> FALSE, err |-> "OutOfRange"]
            ELSE [ok |-> TRUE, square |-> Square_try_from_u8(parsed.value)]
    IN  convert(parse_u8(text))

\* impl TryFrom<MonoBitBoard> for Square (0 stands for SquareConversionError).
\* Square::iter().find(..): the first square, in the order One..ThirtyTwo,
\* whose bit is the cell.
Square_try_from_cell(cell) ==
    LET found == {sq \in 1..32 : MonoBitBoard_from(sq) = cell}
    IN  IF found = {} THEN 0
        ELSE CHOOSE sq \in found : \A other \in found : sq <= other

\* Faulty variant of RED_PIECE_MOVES: the entry of square 10 lacks its jump
\* to square 1.
RED_PIECE_MOVES_missing_jump ==
    << {}, {}, {}, {},
       {62}, {60, 62}, {58, 60}, {56, 58},
       {53, 55, 60}, {51, 53, 58}, {49, 51, 56, 60}, {49, 58},
       {46, 53}, {44, 46, 51, 55}, {42, 44, 49, 53}, {40, 42, 51},
       {37, 39, 44}, {35, 37, 42, 46}, {33, 35, 40, 44}, {33, 42},
       {30, 37}, {28, 30, 35, 39}, {26, 28, 33, 37}, {24, 26, 35},
       {21, 23, 28}, {19, 21, 26, 30}, {17, 19, 24, 28}, {17, 26},
       {14, 21}, {12, 14, 19, 23}, {10, 12, 17, 21}, {8, 10, 19} >>

RED_PIECE_MOVES ==
    << {}, {}, {}, {},
       {62}, {60, 62}, {58, 60}, {56, 58},
       {53, 55, 60}, {51, 53, 58, 62}, {49, 51, 56, 60}, {49, 58},
       {46, 53}, {44, 46, 51, 55}, {42, 44, 49, 53}, {40, 42, 51},
       {37, 39, 44}, {35, 37, 42, 46}, {33, 35, 40, 44}, {33, 42},
       {30, 37}, {28, 30, 35, 39}, {26, 28, 33, 37}, {24, 26, 35},
       {21, 23, 28}, {19, 21, 26, 30}, {17, 19, 24, 28}, {17, 26},
       {14, 21}, {12, 14, 19, 23}, {10, 12, 17, 21}, {8, 10, 19} >>

\* Faulty variant of BLACK_PIECE_MOVES: the destinations are the bits 7, 9,
\* 14 and 18 below the square's bit, with no regard for the board's edges.
BLACK_PIECE_MOVES_wrapping ==
    [sq \in 1..32 |-> {SquareBits[sq] - k : k \in {7, 9, 14, 18}} \cap 0..63]

BLACK_PIECE_MOVES ==
    << {44, 53, 55}, {42, 46, 51, 53}, {40, 44, 49, 51}, {42, 49},
       {37, 46}, {35, 39, 44, 46}, {33, 37, 42, 44}, {35, 40, 42},
       {28, 37, 39}, {26, 30, 35, 37}, {24, 28, 33, 35}, {26, 33},
       {21, 30}, {19, 23, 28, 30}, {17, 21, 26, 28}, {19, 24, 26},
       {12, 21, 23}, {10, 14, 19, 21}, {8, 12, 17, 19}, {10, 17},
       {5, 14}, {3, 7, 12, 14}, {1, 5, 10, 12}, {3, 8, 10},
       {5, 7}, {3, 5}, {1, 3}, {1},
       {}, {}, {}, {} >>

\* Faulty variant of KING_MOVES: a king has the destinations of a red and of
\* a black piece.
KING_MOVES_all_directions ==
    [i \in 1..32 |-> RED_PIECE_MOVES[i] \cup BLACK_PIECE_MOVES[i]]

KING_MOVES == [i \in 1..32 |-> {}]

\* Move::from_squares
Move_from_squares(source, destination) ==
    [source |-> MonoBitBoard_from(source),
     destination |-> MonoBitBoard_from(destination)]

\* Move::new
Move_new(source, destination) ==
    [source |-> source, destination |-> destination]

\* impl TryFrom<(MonoBitBoard, MonoBitBoard)> for Move
Move_try_from_cells(value) == [ok |-> TRUE, move |-> Move_new(value[1], value[2])]

\* impl TryFrom<(Square, Square)> for Move
Move_try_from_squares(value) ==
    [ok |-> TRUE,
     move |-> [source |-> MonoBitBoard_from(value[1]),
               destination |-> MonoBitBoard_from(value[2])]]

\* The position after the longest match of a number pattern in text from
\* position i on, 0 when there is no match: first is what the pattern's
\* first character may be.
match_number(text, i, first) ==
    IF i > Len(text) \/ text[i] \notin first THEN 0
    ELSE CHOOSE end \in (i + 1)..(Len(text) + 1) :
             /\ \A j \in (i + 1)..(end - 1) : is_digit(text[j])
             /\ end = Len(text) + 1 \/ ~is_digit(text[end])

\* A regular expression ^(number)([-xX])(number)$ matched against text:
\* <<>> for None, else the texts of groups 1 and 3.
captures(text, first) ==
    LET second(sep) ==
            IF sep = 0 \/ sep > Len(text) THEN <<>>
            ELSE IF text[sep] \notin {"-", "x", "X"} THEN <<>>
            ELSE IF match_number(text, sep + 1, first) # Len(text) + 1
                 THEN <<>>
            ELSE << [source_text |-> SubSeq(text, 1, sep - 1),
                     dest_text |-> SubSeq(text, sep + 1, Len(text))] >>
    IN  second(match_number(text, 1, first))

\* Faulty variant of CN_PATTERN: the numbers are [0-9]+.
CN_PATTERN_captures_leading_zero(text) ==
    captures(text, {"0", "1", "2", "3", "4", "5", "6", "7", "8", "9"})

\* CN_PATTERN.captures(text) for ^([1-9]+[0-9]*)([-xX])([1-9]+[0-9]*)$
CN_PATTERN_captures(text) ==
    captures(text, {"1", "2", "3", "4", "5", "6", "7", "8", "9"})

\* Move::parse_captures: the source text is converted first, and its error
\* returned first.
parse_captures(found) ==
    LET convert(source, dest) ==
            IF ~source.ok THEN source
            ELSE IF ~dest.ok THEN dest
            ELSE [ok |-> TRUE,
                  move |-> Move_from_squares(source.square, dest.square)]
    IN  convert(Square_try_from_str(found.source_text),
                Square_try_from_str(found.dest_text))

\* impl TryFrom<&str> for Move: Move::from_notation on a text.
Move_try_from_str(text) ==
    LET match(found) ==
            IF found = <<>> THEN [ok |-> FALSE, err |-> "InvalidFormat"]
            ELSE parse_captures(found[1])
    IN  match(CN_PATTERN_captures(text))

\* text.split(','): the texts between the commas, one more than there are
\* commas.
RECURSIVE split(_)
split(text) ==
    LET commas == {p \in 1..Len(text) : text[p] = ","}
        cut(p) == <<SubSeq(text, 1, p - 1)>>
                      \o split(SubSeq(text, p + 1, Len(text)))
    IN  IF commas = {} THEN <<text>>
        ELSE cut(CHOOSE p \in commas : \A q \in commas : p <= q)

\* Faulty variant of collect_results: the last error is returned, not the first.
RECURSIVE collect_results_last_error(_)
collect_results_last_error(results) ==
    IF results = <<>> THEN [ok |-> TRUE, moves |-> <<>>]
    ELSE LET add(rest) ==
                 IF ~rest.ok THEN rest
                 ELSE IF ~Head(results).ok THEN Head(results)
                 ELSE [ok |-> TRUE,
                       moves |-> <<Head(results).move>> \o rest.moves]
         IN  add(collect_results_last_error(Tail(results)))

\* .collect::<Result<Vec<Move>, _>>(): the first Err met ends the
\* iteration and is the result; otherwise the Moves in order.
RECURSIVE collect_results(_)
collect_results(results) ==
    IF results = <<>> THEN [ok |-> TRUE, moves |-> <<>>]
    ELSE IF ~Head(results).ok THEN Head(results)
    ELSE LET add(rest) ==
                 IF ~rest.ok THEN rest
                 ELSE [ok |-> TRUE,
                       moves |-> <<Head(results).move>> \o rest.moves]
         IN  add(collect_results(Tail(results)))

\* impl Into<Move> for Move
Move_into(m) == [ok |-> TRUE, move |-> m]

\* m.try_into() for the types T: TryInto<Move>: a notation text, a pair of
\* Squares, a pair of MonoBitBoards, a Move.
Move_try_into(m) ==
    CASE m.type = "&str" -> Move_try_from_str(m.value)
      [] m.type = "(Square, Square)" -> Move_try_from_squares(m.value)
      [] m.type = "(MonoBitBoard, MonoBitBoard)" -> Move_try_from_cells(m.value)
      [] m.type = "Move" -> Move_into(m.value)

\* An iterable of items of one type.
Items(type, values) ==
    [i \in 1..Len(values) |-> [type |-> type, value |-> values[i]]]

\* Turn::new: every item is converted with try_into and the results are
\* collected.
Turn_new(moves) ==
    collect_results([i \in 1..Len(moves) |-> Move_try_into(moves[i])])

\* impl TryFrom<&str> for Turn: Turn::from_notation on a text.
Turn_try_from_str(text) ==
    LET map(segments) ==
            collect_results([i \in 1..Len(segments) |->
                                Move_try_from_str(segments[i])])
    IN  map(split(text))

\* impl TryFrom<[T; N]> for Turn
Turn_try_from_array(value) == Turn_new(Items("Move", value))

\* Move::capture, the midpoint of a jump: for a source and a destination
\* two diagonal steps apart (their bits 14 or 18 apart) the cell between
\* them, and None (<<>>) for any other Move.
capture(m) ==
    IF (m.destination - m.source) \in {14, 18, 0 - 14, 0 - 18}
    THEN << (m.source + m.destination) \div 2 >>
    ELSE <<>>

\* Move::to_bitboard: source | destination.
to_bitboard(m) == {m.source} \cup {m.destination}

\* Move::from_notation / parse_captures on a segment already split into its
\* two numbers: each number goes through Square::try_from.
Move_from_notation(seg) ==
    LET source == Square_try_from_u8(seg[1])
        dest == Square_try_from_u8(seg[2])
    IN  IF source = 0 \/ dest = 0
        THEN [ok |-> FALSE, err |-> "OutOfRange"]
        ELSE [ok |-> TRUE, move |-> Move_from_squares(source, dest)]

\* ----------------------------------------------------------------- turn.rs
\* Turn::from_notation: every segment is parsed; the first error wins.
Turn_from_notation(segs) ==
    LET collect(parsed) ==
            IF \E i \in 1..Len(segs) : ~parsed[i].ok
            THEN [ok |-> FALSE, err |-> "OutOfRange"]
            ELSE [ok |-> TRUE,
                  moves |-> [i \in 1..Len(segs) |-> parsed[i].move]]
    IN  collect([i \in 1..Len(segs) |-> Move_from_notation(segs[i])])

\* ---------------------------------------------------------------- board.rs
\* Faulty variant of INITIAL_RED_PIECES: the lowest byte of the literal is
\* 0b01010101, the cells of a row of the other parity.
INITIAL_RED_PIECES_low_byte_shifted ==
    {0, 2, 4, 6, 8, 10, 12, 14, 17, 19, 21, 23}

INITIAL_RED_PIECES == {1, 3, 5, 7, 8, 10, 12, 14, 17, 19, 21, 23}
INITIAL_BLACK_PIECES == {40, 42, 44, 46, 49, 51, 53, 55, 56, 58, 60, 62}
INITIAL_KINGS == {}

BoardState_default ==
    [active_player |-> "Black", red_pieces |-> INITIAL_RED_PIECES,
     black_pieces |-> INITIAL_BLACK_PIECES, kings |-> INITIAL_KINGS]

BoardState_empty ==
    [active_player |-> "Black", red_pieces |-> {}, black_pieces |-> {},
     kings |-> {}]

pieces_by_player(s, player) ==
    IF player = "Red" THEN s.red_pieces ELSE s.black_pieces

next_player(s) == IF s.active_player = "Red" THEN "Black" ELSE "Red"

current_player_pieces(s) == pieces_by_player(s, s.active_player)

all_pieces(s) == s.red_pieces \cup s.black_pieces

is_current_player_piece(s, bitboard) ==
    (current_player_pieces(s) \cap {bitboard}) # {}

is_piece(s, bitboard) == (all_pieces(s) \cap {bitboard}) # {}

is_king(s, bitboard) == (s.kings \cap {bitboard}) # {}

\* BoardState::all_kings
all_kings(board_state) == board_state.kings

\* BoardState::red_kings: red_pieces & all_kings
red_kings(board_state) == board_state.red_pieces \cap all_kings(board_state)

\* BoardState::black_kings: black_pieces & all_pieces
black_kings(board_state) ==
    board_state.black_pieces \cap all_pieces(board_state)

\* BoardState::kings_by_player
kings_by_player(board_state, player) ==
    IF player = "Red" THEN red_kings(board_state)
    ELSE black_kings(board_state)

\* ------------------------------------------- position.rs: MoveGenerator
get_move_bitboard(board_state, player, cell) ==
    LET square == Square_try_from_cell(cell)
    IN  IF square = 0 THEN {}
        ELSE IF is_king(board_state, cell) THEN KING_MOVES[square]
        ELSE IF player = "Red" THEN RED_PIECE_MOVES[square]
        ELSE BLACK_PIECE_MOVES[square]

moves_by_cell(board_state, player, cell) ==
    used_cells(get_move_bitboard(board_state, player, cell))

by_cell(board_state, player, cell) ==
    LET zip(dests) ==
            [i \in 1..Len(dests) |->
                [source |-> cell, destination |-> dests[i]]]
    IN  zip(moves_by_cell(board_state, player, cell))

\* ------------------------------------------- position.rs: MoveValidator
valid_piece_selection(board_state, m) ==
    IF ~is_piece(board_state, m.source) THEN "NoPieceAtSource"
    ELSE IF ~is_current_player_piece(board_state, m.source)
    THEN "WrongPlayerPiece"
    ELSE "Ok"

\* Faulty variant of valid_destination: the occupancy of the destination is
\* tested before its reachability.
valid_destination_occupied_first(board_state, m) ==
    LET check(destinations) ==
            IF (all_pieces(board_state) \cap {m.destination}) # {}
            THEN "DestinationOccupied"
            ELSE IF \A i \in 1..Len(destinations) :
                        destinations[i].destination # m.destination
            THEN "IllegalDestination"
            ELSE "Ok"
    IN  check(by_cell(board_state, board_state.active_player, m.source))

\* Faulty variant of valid_destination: the occupancy of the destination is
\* not tested.
valid_destination_unchecked(board_state, m) ==
    LET check(destinations) ==
            IF \A i \in 1..Len(destinations) :
                   destinations[i].destination # m.destination
            THEN "IllegalDestination"
            ELSE "Ok"
    IN  check(by_cell(board_state, board_state.active_player, m.source))

valid_destination(board_state, m) ==
    LET check(destinations) ==
            IF \A i \in 1..Len(destinations) :
                   destinations[i].destination # m.destination
            THEN "IllegalDestination"
            ELSE IF (all_pieces(board_state) \cap {m.destination}) # {}
            THEN "DestinationOccupied"
            ELSE "Ok"
    IN  check(by_cell(board_state, board_state.active_player, m.source))

validate(board_state, m) ==
    LET then(selection) ==
            IF selection # "Ok" THEN selection
            ELSE valid_destination(board_state, m)
    IN  then(valid_piece_selection(board_state, m))

\* ------------------------------------------------ position.rs: MoveIter
\* MoveIter::new
MoveIter_new(board_state, player) ==
    [player_pieces |-> CellIter_new(pieces_by_player(board_state, player)),
     player |-> player]

\* Faulty variant of MoveIter::next: the moves of the generator are returned
\* without asking the validator.
RECURSIVE MoveIter_next_unvalidated(_, _)
MoveIter_next_unvalidated(board_state, it) ==
    LET flat_map(moves, rest) ==
            IF Len(moves) = 0
            THEN MoveIter_next_unvalidated(board_state, rest)
            ELSE [item |-> <<moves[1]>>, it |-> rest]
        go(piece) ==
            IF piece.item = 64
            THEN [item |-> <<>>,
                  it |-> [it EXCEPT !.player_pieces = piece.it]]
            ELSE flat_map(by_cell(board_state, it.player, piece.item),
                          [it EXCEPT !.player_pieces = piece.it])
    IN  go(CellIter_next(it.player_pieces))

\* MoveIter::next: pieces are drawn from player_pieces until one has a move
\* the validator accepts; that move is returned, and what is left of that
\* piece's moves is dropped with the flat_map adapter.  <<>> stands for None.
RECURSIVE MoveIter_next(_, _)
MoveIter_next(board_state, it) ==
    LET find(moves, valid, rest) ==
            IF valid = {}
            THEN MoveIter_next(board_state, rest)
            ELSE [item |-> <<moves[CHOOSE i \in valid :
                                      \A j \in valid : i <= j]>>,
                  it |-> rest]
        flat_map(moves, rest) ==
            find(moves,
                 {i \in 1..Len(moves) :
                      validate(board_state, moves[i]) = "Ok"},
                 rest)
        go(piece) ==
            IF piece.item = 64
            THEN [item |-> <<>>,
                  it |-> [it EXCEPT !.player_pieces = piece.it]]
            ELSE flat_map(by_cell(board_state, it.player, piece.item),
                          [it EXCEPT !.player_pieces = piece.it])
    IN  go(CellIter_next(it.player_pieces))

\* ------------------------------------------------------- board.rs: Board
Board_new(initial_state) == <<initial_state>>

\* Board::current_state: the back of the stack.
current_state(stack) == stack[Len(stack)]

\* Faulty variant of status: the player left without a move is the winner.
status_winner_active(stack) ==
    LET first(state) ==
            MoveIter_next(state, MoveIter_new(state, state.active_player))
    IN  IF first(current_state(stack)).item # <<>>
        THEN [kind |-> "OnGoing", winner |-> "-"]
        ELSE [kind |-> "Complete",
              winner |-> current_state(stack).active_player]

\* Board::status, as OnGoing or Complete with its winner.
status_while_pieces_remain(stack) ==
    IF pieces_by_player(current_state(stack),
                        current_state(stack).active_player)
           # {}
    THEN [kind |-> "OnGoing", winner |-> "-"]
    ELSE [kind |-> "Complete", winner |-> next_player(current_state(stack))]

status(stack) ==
    LET first(state) ==
            MoveIter_next(state, MoveIter_new(state, state.active_player))
    IN  IF first(current_state(stack)).item # <<>>
        THEN [kind |-> "OnGoing", winner |-> "-"]
        ELSE [kind |-> "Complete",
              winner |-> next_player(current_state(stack))]

is_game_concluded(stack) == status(stack).kind = "Complete"

\* Faulty variant of apply_move: the active player is flipped with every
\* move applied.
apply_move_flipping(board_state, m) ==
    IF board_state.active_player = "Red"
    THEN [board_state EXCEPT
              !.red_pieces = BitXor(board_state.red_pieces, to_bitboard(m)),
              !.active_player = "Black"]
    ELSE [board_state EXCEPT
              !.black_pieces = BitXor(board_state.black_pieces, to_bitboard(m)),
              !.active_player = "Red"]

\* Faulty variant of apply_move: |= in place of ^=, the source bit stays set.
apply_move_or(board_state, m) ==
    IF board_state.active_player = "Red"
    THEN [board_state EXCEPT
              !.red_pieces = board_state.red_pieces \cup to_bitboard(m)]
    ELSE [board_state EXCEPT
              !.black_pieces = board_state.black_pieces \cup to_bitboard(m)]

\* The body of push_turn's loop after validation: the mover's piece set is
\* xor-ed with the move's two bits.
apply_move(board_state, m) ==
    IF board_state.active_player = "Red"
    THEN [board_state EXCEPT
              !.red_pieces = BitXor(board_state.red_pieces, to_bitboard(m))]
    ELSE [board_state EXCEPT
              !.black_pieces = BitXor(board_state.black_pieces, to_bitboard(m))]

\* Faulty variant of push_turn_loop: every move is validated against the
\* state the Turn started from, not against the working state.
RECURSIVE push_turn_loop_stale(_, _, _)
push_turn_loop_stale(work, moves, i) ==
    IF i > Len(moves) THEN [err |-> "Ok", work |-> work]
    ELSE LET step(board_state, v) ==
                 IF v # "Ok" THEN [err |-> v, work |-> work]
                 ELSE push_turn_loop_stale(
                          Append(work, apply_move(board_state, moves[i])),
                          moves, i + 1)
         IN  step(work[Len(work)], validate(work[1], moves[i]))

\* push_turn's loop over turn.moves() from move i on.  work is the sequence
\* of values the working board_state has taken, the clone first; err is
\* "Ok" or the error the ? operator returned.
RECURSIVE push_turn_loop(_, _, _)
push_turn_loop(work, moves, i) ==
    IF i > Len(moves) THEN [err |-> "Ok", work |-> work]
    ELSE LET step(board_state, v) ==
                 IF v # "Ok" THEN [err |-> v, work |-> work]
                 ELSE push_turn_loop(
                          Append(work, apply_move(board_state, moves[i])),
                          moves, i + 1)
         IN  step(work[Len(work)], validate(work[Len(work)], moves[i]))

\* A value given to push_turn: a notation text, held as the number pairs of
\* its segments (kind "notation"), or an array of Moves, held as the pairs of
\* their bits (kind "array"), or a notation text held as its characters in
\* the field text (kind "text").  TryInto<Turn>:
Turn_try_into(turn) ==
    IF turn.kind = "text" THEN Turn_try_from_str(turn.text)
    ELSE IF turn.kind = "array"
    THEN [ok |-> TRUE,
          moves |-> [i \in 1..Len(turn.segs) |->
                        [source |-> turn.segs[i][1],
                         destination |-> turn.segs[i][2]]]]
    ELSE Turn_from_notation(turn.segs)

\* Faulty variant of flip_and_push: the active player is flipped on the
\* state on top of the stack as well as on the state that is pushed.
flip_and_push_flips_top(stack, board_state) ==
    Append([stack EXCEPT ![Len(stack)].active_player = next_player(board_state)],
           [board_state EXCEPT !.active_player = next_player(board_state)])

\* The flip and push that end a successful push_turn.
flip_and_push(stack, board_state) ==
    Append(stack, [board_state EXCEPT
                       !.active_player = next_player(board_state)])

\* Faulty variant of push_turn: the loop works on the top of the stack
\* itself, not on a clone, so a failing Turn leaves its valid moves applied.
push_turn_in_place(stack, turn, concluded) ==
    IF concluded
    THEN [stack |-> stack, ret |-> "GameConcluded"]
    ELSE LET finish(run) ==
                 IF run.err # "Ok"
                 THEN [stack |-> [stack EXCEPT
                                      ![Len(stack)] = run.work[Len(run.work)]],
                       ret |-> run.err]
                 ELSE [stack |-> flip_and_push(
                                     stack, run.work[Len(run.work)]),
                       ret |-> "Ok"]
             convert(t) ==
                 IF ~t.ok
                 THEN [stack |-> stack, ret |-> "InvalidConstruction"]
                 ELSE finish(push_turn_loop(<<current_state(stack)>>,
                                            t.moves, 1))
         IN  convert(Turn_try_into(turn))

\* Faulty variant of push_turn: the argument is converted to a Turn before
\* the game is tested for being concluded.
push_turn_convert_first(stack, turn, concluded) ==
    LET finish(run) ==
            IF run.err # "Ok"
            THEN [stack |-> stack, ret |-> run.err]
            ELSE [stack |-> flip_and_push(stack, run.work[Len(run.work)]),
                  ret |-> "Ok"]
        convert(t) ==
            IF ~t.ok
            THEN [stack |-> stack, ret |-> "InvalidConstruction"]
            ELSE IF concluded
            THEN [stack |-> stack, ret |-> "GameConcluded"]
            ELSE finish(push_turn_loop(<<current_state(stack)>>, t.moves, 1))
    IN  convert(Turn_try_into(turn))

\* Faulty variant of push_turn: an argument that cannot be converted is
\* taken for a Turn without moves.
push_turn_unconverted_as_empty(stack, turn, concluded) ==
    IF concluded
    THEN [stack |-> stack, ret |-> "GameConcluded"]
    ELSE LET finish(run) ==
                 IF run.err # "Ok"
                 THEN [stack |-> stack, ret |-> run.err]
                 ELSE [stack |-> flip_and_push(
                                     stack, run.work[Len(run.work)]),
                       ret |-> "Ok"]
             convert(t) ==
                 finish(push_turn_loop(<<current_state(stack)>>,
                                       IF t.ok THEN t.moves ELSE <<>>, 1))
         IN  convert(Turn_try_into(turn))

\* Board::push_turn: the stack after the call and what the call returned.
\* concluded is what the call of is_game_concluded() that opens push_turn
\* returned on this stack.
push_turn(stack, turn, concluded) ==
    IF concluded
    THEN [stack |-> stack, ret |-> "GameConcluded"]
    ELSE LET finish(run) ==
                 IF run.err # "Ok"
                 THEN [stack |-> stack, ret |-> run.err]
                 ELSE [stack |-> flip_and_push(
                                     stack, run.work[Len(run.work)]),
                       ret |-> "Ok"]
             convert(t) ==
                 IF ~t.ok
                 THEN [stack |-> stack, ret |-> "InvalidConstruction"]
                 ELSE finish(push_turn_loop(<<current_state(stack)>>,
                                            t.moves, 1))
         IN  convert(Turn_try_into(turn))

\* Faulty variant of pop_turn: the last state is popped as well.
pop_turn_unguarded(stack) ==
    [stack |-> SubSeq(stack, 1, Len(stack) - 1),
     ret |-> <<stack[Len(stack)]>>]

\* Faulty variant of pop_turn: pop_front in place of pop_back.
pop_turn_front(stack) ==
    IF Len(stack) = 1 THEN [stack |-> stack, ret |-> <<>>]
    ELSE [stack |-> Tail(stack), ret |-> <<stack[1]>>]

\* Faulty variant of pop_turn: the top state is returned but stays on the
\* stack.
pop_turn_keep_top(stack) ==
    IF Len(stack) = 1 THEN [stack |-> stack, ret |-> <<>>]
    ELSE [stack |-> stack, ret |-> <<stack[Len(stack)]>>]

\* Board::pop_turn: the stack after the call and the Option returned, as a
\* sequence of no or one state.
pop_turn(stack) ==
    IF Len(stack) = 1 THEN [stack |-> stack, ret |-> <<>>]
    ELSE [stack |-> SubSeq(stack, 1, Len(stack) - 1),
          ret |-> <<stack[Len(stack)]>>]

\* ------------------------------------------------ board.rs: BoardBuilder
\* impl Default for BoardBuilder
BoardBuilder_default == [current_player |-> "Black", placements |-> <<>>]

\* BoardBuilder::current_player
BoardBuilder_current_player(builder, player) ==
    [builder EXCEPT !.current_player = player]

\* BoardBuilder::piece
BoardBuilder_piece(builder, player, square) ==
    [builder EXCEPT
         !.placements = Append(@, [player |-> player, square |-> square,
                                   is_king |-> FALSE])]

\* BoardBuilder::king
BoardBuilder_king(builder, player, square) ==
    [builder EXCEPT
         !.placements = Append(@, [player |-> player, square |-> square,
                                   is_king |-> TRUE])]

\* Faulty variant of build_loop: a placement is compared with the pieces of
\* its own player only.
RECURSIVE build_loop_same_player(_, _, _)
build_loop_same_player(acc, placements, i) ==
    IF i > Len(placements) THEN [ok |-> TRUE, acc |-> acc]
    ELSE LET placement == placements[i]
             piece == MonoBitBoard_from(placements[i].square)
         IN  IF (/\ placement.player = "Red"
                 /\ piece \in acc.red_pieces)
                \/ (/\ placement.player = "Black"
                    /\ piece \in acc.black_pieces)
             THEN [ok |-> FALSE, acc |-> acc]
             ELSE build_loop_same_player(
                      [red_pieces |->
                           IF placement.player = "Red"
                           THEN acc.red_pieces \cup {piece}
                           ELSE acc.red_pieces,
                       black_pieces |->
                           IF placement.player = "Black"
                           THEN acc.black_pieces \cup {piece}
                           ELSE acc.black_pieces,
                       kings |->
                           IF placement.is_king THEN acc.kings \cup {piece}
                           ELSE acc.kings],
                      placements, i + 1)

\* BoardBuilder::build's loop over the placements from placement i on.
RECURSIVE build_loop(_, _, _)
build_loop(acc, placements, i) ==
    IF i > Len(placements) THEN [ok |-> TRUE, acc |-> acc]
    ELSE LET placement == placements[i]
             piece == MonoBitBoard_from(placements[i].square)
         IN  IF ((acc.red_pieces \cup acc.black_pieces) \cap {piece}) # {}
             THEN [ok |-> FALSE, acc |-> acc]
             ELSE build_loop(
                      [red_pieces |->
                           IF placement.player = "Red"
                           THEN acc.red_pieces \cup {piece}
                           ELSE acc.red_pieces,
                       black_pieces |->
                           IF placement.player = "Black"
                           THEN acc.black_pieces \cup {piece}
                           ELSE acc.black_pieces,
                       kings |->
                           IF placement.is_king THEN acc.kings \cup {piece}
                           ELSE acc.kings],
                      placements, i + 1)

\* Faulty variant of BoardBuilder::build: the Board is given the player of
\* BoardBuilder::default().
BoardBuilder_build_default_player(builder) ==
    LET finish(run) ==
            IF ~run.ok THEN [ok |-> FALSE, board |-> <<>>]
            ELSE [ok |-> TRUE,
                  board |-> Board_new(
                      [active_player |-> BoardBuilder_default.current_player,
                       red_pieces |-> run.acc.red_pieces,
                       black_pieces |-> run.acc.black_pieces,
                       kings |-> run.acc.kings])]
    IN  finish(build_loop([red_pieces |-> {}, black_pieces |-> {},
                           kings |-> {}], builder.placements, 1))

\* BoardBuilder::build: Err(DuplicateAssignments) or the Board.
BoardBuilder_build(builder) ==
    LET finish(run) ==
            IF ~run.ok THEN [ok |-> FALSE, board |-> <<>>]
            ELSE [ok |-> TRUE,
                  board |-> Board_new(
                      [active_player |-> builder.current_player,
                       red_pieces |-> run.acc.red_pieces,
                       black_pieces |-> run.acc.black_pieces,
                       kings |-> run.acc.kings])]
    IN  finish(build_loop([red_pieces |-> {}, black_pieces |-> {},
                           kings |-> {}], builder.placements, 1))

\* ------------------------------------------------------------- the inputs
\* The squares the notation inputs name, a diagonal band across the board:
\* 3 and 7 of Black's back rows, 10 and 11 of Black's front row, 15 and 18
\* in the middle and 22 of Red's front row.
InputSquares == {3, 7, 10, 11, 15, 18, 22}

\* Every one-move notation over InputSquares ("11x15", "11x11", ...).
SingleMoves == InputSquares \X InputSquares

\* The moves of the multi-move notations ("11x15,15x18", ...).
ChainMoves == {<<11, 15>>, <<15, 18>>, <<10, 15>>}

ChainTurns == UNION {[1..n -> ChainMoves] : n \in 2..MaxTurnLen}

\* Notations that name a square outside 1..32.
BadNotations == {<< <<33, 10>> >>, << <<11, 15>>, <<15, 33>> >>}

\* A one-move notation that starts on the left edge of the board: the step
\* of Black from square 12 to square 16.
EdgeMoves == {<<12, 16>>}

\* Arrays of Moves: the empty array, and a Move built with Move::new whose
\* destination is bit 0, the image of no Square.
ArrayTurns == {<<>>, << <<42, 0>> >>}

\* A text that is no notation: "11x".
TextTurns == { <<"1", "1", "x">> }

TurnInputs ==
    {[kind |-> "notation", segs |-> <<m>>] : m \in SingleMoves \cup EdgeMoves}
    \cup {[kind |-> "notation", segs |-> t] : t \in ChainTurns \cup BadNotations}
    \cup {[kind |-> "array", segs |-> t] : t \in ArrayTurns}
    \cup {[kind |-> "text", segs |-> <<>>, text |-> t] : t \in TextTurns}

Placement(player, square, king) ==
    [player |-> player, square |-> square, is_king |-> king]

\* What the BoardBuilder is given before build().
BuilderInputs ==
    { [current_player |-> "Black",
       placements |-> <<Placement("Black", 11, FALSE),
                        Placement("Red", 15, FALSE)>>],
      [current_player |-> "Black",
       placements |-> <<Placement("Red", 15, TRUE),
                        Placement("Black", 11, FALSE),
                        Placement("Black", 10, FALSE)>>],
      [current_player |-> "Red",
       placements |-> <<Placement("Red", 18, FALSE),
                        Placement("Black", 15, FALSE),
                        Placement("Black", 3, FALSE)>>],
      [current_player |-> "Red",
       placements |-> <<Placement("Red", 7, FALSE),
                        Placement("Black", 18, TRUE)>>],
      [current_player |-> "Black",
       placements |-> <<Placement("Black", 10, TRUE),
                        Placement("Red", 22, FALSE)>>],
      [current_player |-> "Black",
       placements |-> <<Placement("Red", 15, FALSE),
                        Placement("Black", 15, FALSE)>>] }

\* The Boards a program can hold: Board::default(), Board::empty() and the
\* successful results of BoardBuilder::build.
InitialBoards ==
    {Board_new(BoardState_default), Board_new(BoardState_empty)}
    \cup {BoardBuilder_build(b).board :
              b \in {x \in BuilderInputs : BoardBuilder_build(x).ok}}

\* ---------------------------------------------------------------- the state
VARIABLES
    state_stack,    \* Board.state_stack
    initial_state,  \* the state the Board was created with
    before,         \* state_stack as it was when the last call began
    op,             \* the last call: "new", "push_turn", "pop_turn" or a query
    turn,           \* the argument of the last push_turn
    ret,            \* what the last call returned: "Ok" or the MoveError of
                    \* push_turn, "Some" or "None" of pop_turn
    popped,         \* the state pop_turn returned, as a sequence of 0 or 1
    move_iter,      \* a MoveIter over current_state(), NoIter when none
    yielded,        \* the Moves move_iter's next() has returned so far
    exhausted,      \* move_iter's next() has returned None
    builder,        \* a BoardBuilder
    calls,          \* the calls made so far on builder, or the one call of
                    \* a constructor or conversion, with its arguments
    result          \* what build() or that one call returned

vars == <<state_stack, initial_state, before, op, turn, ret, popped,
          move_iter, yielded, exhausted, builder, calls, result>>

\* builder, calls and result before anything is called.
NoResult == [ok |-> FALSE, none |-> TRUE]

NothingCalled ==
    /\ builder = BoardBuilder_default
    /\ calls = <<>>
    /\ result = NoResult

NoTurn == [kind |-> "none", segs |-> <<>>]

NoIter == [player_pieces |-> CellIter_new({}), player |-> "-"]

Init ==
    /\ state_stack \in InitialBoards
    /\ initial_state = state_stack[1]
    /\ before = state_stack
    /\ op = "new"
    /\ turn = NoTurn
    /\ ret = "-"
    /\ popped = <<>>
    /\ move_iter = NoIter
    /\ yielded = <<>>
    /\ exhausted = FALSE
    /\ NothingCalled

PushTurn ==
    /\ Len(state_stack) < MaxDepth
    /\ LET call(t, r) ==
               /\ state_stack' = r.stack
               /\ ret' = r.ret
               /\ turn' = t
           any(concluded) ==
               \E t \in TurnInputs :
                   call(t, push_turn(state_stack, t, concluded))
       IN  any(is_game_concluded(state_stack))
    /\ before' = state_stack
    /\ op' = "push_turn"
    /\ popped' = <<>>
    /\ UNCHANGED <<initial_state, move_iter, yielded, exhausted,
                   builder, calls, result>>

PopTurn ==
    /\ LET call(r) ==
               /\ state_stack' = r.stack
               /\ popped' = r.ret
               /\ ret' = IF r.ret = <<>> THEN "None" ELSE "Some"
       IN  call(pop_turn(state_stack))
    /\ before' = state_stack
    /\ op' = "pop_turn"
    /\ turn' = NoTurn
    /\ UNCHANGED <<initial_state, move_iter, yielded, exhausted,
                   builder, calls, result>>

\* The moves given to MoveValidator::validate when it is called directly.
QueryMoves == {<<11, 15>>}

\* board.status(), board.is_game_concluded(), board.current_state() and
\* MoveValidator::new(board.current_state()).validate(m): each takes the
\* Board or the BoardState by shared reference and returns a value.
Query ==
    /\ \/ /\ op' = "status"
          /\ ret' = status(state_stack).kind
          /\ popped' = <<>>
       \/ /\ op' = "is_game_concluded"
          /\ ret' = IF is_game_concluded(state_stack) THEN "true" ELSE "false"
          /\ popped' = <<>>
       \/ /\ op' = "current_state"
          /\ ret' = "&BoardState"
          /\ popped' = <<current_state(state_stack)>>
       \/ /\ op' = "validate"
          /\ \E m \in QueryMoves :
                 ret' = validate(current_state(state_stack),
                                 Move_from_squares(m[1], m[2]))
          /\ popped' = <<>>
    /\ before' = state_stack
    /\ turn' = NoTurn
    /\ UNCHANGED <<state_stack, initial_state, move_iter, yielded, exhausted,
                   builder, calls, result>>

Next == PushTurn \/ PopTurn \/ Query

Spec == Init /\ [][Next]_vars

\* ------------------------------------------------ iterating over the moves
\* The Boards MoveIter is run on: every initial Board and every Board one
\* push_turn away from one.
IterBoards ==
    InitialBoards
    \cup {push_turn(b, t, is_game_concluded(b)).stack :
              b \in InitialBoards, t \in TurnInputs}

IterInit ==
    /\ state_stack \in IterBoards
    /\ initial_state = state_stack[1]
    /\ before = state_stack
    /\ op = "new"
    /\ turn = NoTurn
    /\ ret = "-"
    /\ popped = <<>>
    /\ move_iter = NoIter
    /\ yielded = <<>>
    /\ exhausted = FALSE
    /\ NothingCalled

\* MoveIter::new(board.current_state(), player)
NewMoveIter ==
    /\ move_iter = NoIter
    /\ \E player \in {"Red", "Black"} :
           move_iter' = MoveIter_new(current_state(state_stack), player)
    /\ UNCHANGED <<state_stack, initial_state, before, op, turn, ret, popped,
                   yielded, exhausted, builder, calls, result>>

\* One call of MoveIter::next.
NextMove ==
    /\ move_iter # NoIter
    /\ ~exhausted
    /\ LET call(r) ==
               /\ move_iter' = r.it
               /\ yielded' = yielded \o r.item
               /\ exhausted' = (r.item = <<>>)
       IN  call(MoveIter_next(current_state(state_stack), move_iter))
    /\ UNCHANGED <<state_stack, initial_state, before, op, turn, ret, popped,
                   builder, calls, result>>

IterNext == NewMoveIter \/ NextMove

IterSpec == IterInit /\ [][IterNext]_vars

\* ------------------------------------------------------ playing a game
\* A game is played on a Board built with one piece of each player: turns
\* that push_turn accepts are pushed, none is popped, and on a Board whose
\* game is concluded push_turn is called all the same.
GameBlackSquares == {22, 26}
GameRedSquares == {7, 11}

GameBoards ==
    {BoardBuilder_build(
         [current_player |-> player,
          placements |-> <<Placement("Black", black, FALSE),
                           Placement("Red", red, FALSE)>>]).board :
         player \in {"Red", "Black"}, black \in GameBlackSquares,
         red \in GameRedSquares}

GameInit ==
    /\ state_stack \in GameBoards
    /\ initial_state = state_stack[1]
    /\ before = state_stack
    /\ op = "new"
    /\ turn = NoTurn
    /\ ret = "-"
    /\ popped = <<>>
    /\ move_iter = NoIter
    /\ yielded = <<>>
    /\ exhausted = FALSE
    /\ NothingCalled

\* Every notation of one move.
AllMoves == (1..32) \X (1..32)

\* The Turns of one move, or of two moves of which the second starts where
\* the first ends, that push_turn accepts on the stack.
AcceptedTurns(stack) ==
    LET accepted(concluded) ==
            {t \in UNION {{<<first>>}
                              \cup {<<first, <<first[2], d>> >> : d \in 1..32} :
                          first \in {m \in AllMoves :
                                        validate(current_state(stack),
                                                 Move_from_squares(m[1], m[2]))
                                            = "Ok"}} :
                push_turn(stack, [kind |-> "notation", segs |-> t],
                          concluded).ret = "Ok"}
    IN  accepted(is_game_concluded(stack))

\* board.push_turn(turn) returning Ok.
PlayTurn ==
    /\ \E t \in AcceptedTurns(state_stack) :
           /\ state_stack' = push_turn(state_stack,
                                       [kind |-> "notation", segs |-> t],
                                       FALSE).stack
           /\ turn' = [kind |-> "notation", segs |-> t]
    /\ ret' = "Ok"
    /\ before' = state_stack
    /\ op' = "push_turn"
    /\ popped' = <<>>
    /\ UNCHANGED <<initial_state, move_iter, yielded, exhausted,
                   builder, calls, result>>

\* board.push_turn(turn) on a Board whose game is concluded.
RefusedTurn ==
    /\ is_game_concluded(state_stack)
    /\ \E t \in {[kind |-> "notation", segs |-> <<m>>] : m \in QueryMoves}
                 \cup {[kind |-> "array", segs |-> <<>>]} :
           LET call(r) ==
                   /\ state_stack' = r.stack
                   /\ ret' = r.ret
                   /\ turn' = t
           IN  call(push_turn(state_stack, t, TRUE))
    /\ before' = state_stack
    /\ op' = "push_turn"
    /\ popped' = <<>>
    /\ UNCHANGED <<initial_state, move_iter, yielded, exhausted,
                   builder, calls, result>>

GameNext == PlayTurn \/ RefusedTurn

\* The caller goes on pushing turns for as long as push_turn accepts one:
\* weak fairness of PlayTurn, which is enabled exactly when some Turn is
\* accepted.
GameSpec ==
    /\ GameInit
    /\ [][GameNext]_vars
    /\ \/ []<>(AcceptedTurns(state_stack) = {})
       \/ []<><<PlayTurn>>_vars

\* --------------------------------------------------- building a Board
\* The Board and the MoveIter are left alone while other values are built.
board_vars == <<state_stack, initial_state, before, op, turn, ret, popped,
                move_iter, yielded, exhausted>>

NoBoardCall ==
    /\ state_stack = Board_new(BoardState_default)
    /\ initial_state = BoardState_default
    /\ before = state_stack
    /\ op = "new"
    /\ turn = NoTurn
    /\ ret = "-"
    /\ popped = <<>>
    /\ move_iter = NoIter
    /\ yielded = <<>>
    /\ exhausted = FALSE

\* The squares and players the builder is given.
BuilderSquares == {6, 18}
Players == {"Red", "Black"}

BuilderInit == NoBoardCall /\ NothingCalled

\* builder.current_player(player)
CurrentPlayer ==
    /\ result = NoResult
    /\ Len(calls) < MaxCalls
    /\ \E player \in Players :
           /\ builder' = BoardBuilder_current_player(builder, player)
           /\ calls' = Append(calls, [fn |-> "current_player",
                                      player |-> player])
    /\ UNCHANGED <<board_vars, result>>

\* builder.piece(player, square)
Piece ==
    /\ result = NoResult
    /\ Len(calls) < MaxCalls
    /\ \E player \in Players, square \in BuilderSquares :
           /\ builder' = BoardBuilder_piece(builder, player, square)
           /\ calls' = Append(calls, [fn |-> "piece", player |-> player,
                                      square |-> square])
    /\ UNCHANGED <<board_vars, result>>

\* builder.king(player, square)
King ==
    /\ result = NoResult
    /\ Len(calls) < MaxCalls
    /\ \E player \in Players, square \in BuilderSquares :
           /\ builder' = BoardBuilder_king(builder, player, square)
           /\ calls' = Append(calls, [fn |-> "king", player |-> player,
                                      square |-> square])
    /\ UNCHANGED <<board_vars, result>>

\* builder.build()
Build ==
    /\ result = NoResult
    /\ result' = BoardBuilder_build(builder)
    /\ UNCHANGED <<board_vars, builder, calls>>

BuilderNext == CurrentPlayer \/ Piece \/ King \/ Build

BuilderSpec == BuilderInit /\ [][BuilderNext]_vars

\* ------------------------------------------------- vocabulary of the claims
Other(player) == IF player = "Red" THEN "Black" ELSE "Red"

\* The row (byte) and column of a bit of the 8x8 grid.
Row(bit) == bit \div 8
Col(bit) == bit % 8
Abs(n) == IF n < 0 THEN 0 - n ELSE n

\* One and two diagonal steps, and the cell between the ends of a jump.
IsStep(m) ==
    /\ Abs(Row(m.source) - Row(m.destination)) = 1
    /\ Abs(Col(m.source) - Col(m.destination)) = 1
IsJump(m) ==
    /\ Abs(Row(m.source) - Row(m.destination)) = 2
    /\ Abs(Col(m.source) - Col(m.destination)) = 2
Midpoint(m) == (m.source + m.destination) \div 2

\* The farthest row of a player: squares 29..32 (byte 0) for Black, squares
\* 1..4 (byte 7) for Red.
FarthestRow(player) == IF player = "Black" THEN 0 ELSE 7

\* The last call was a push_turn that got as far as validating moves.
Validating ==
    /\ op = "push_turn"
    /\ ~is_game_concluded(before)
    /\ Turn_try_into(turn).ok

Pushed == op = "push_turn" /\ ret = "Ok"

\* The state current when the last call began, and the last Turn's moves.
Prev == current_state(before)
Moves == Turn_try_into(turn).moves

\* The moves 1..k of a Turn applied to state s one after the other.
RECURSIVE Working(_, _, _)
Working(s, moves, k) ==
    IF k = 0 THEN s ELSE apply_move(Working(s, moves, k - 1), moves[k])

\* What validating move k after moves 1..k-1 gives.
ValidateAt(s, moves, k) == validate(Working(s, moves, k - 1), moves[k])

\* The first move of the Turn whose validation fails, 0 when none does.
FirstFailure(s, moves) ==
    LET failing == {k \in 1..Len(moves) : ValidateAt(s, moves, k) # "Ok"}
    IN  IF failing = {} THEN 0
        ELSE CHOOSE k \in failing : \A j \in failing : k <= j

\* ------------------------------------------------------------------ claims

\* C1: push_turn is all-or-nothing.  When the validation of a move of the
\* Turn fails, push_turn returns the MoveError of that move (the first one
\* to fail) and the state stack is exactly what it was before the call, also
\* when earlier moves of the Turn were valid.
C1_PushTurnAllOrNothing ==
    Validating =>
        LET atomic(k) ==
                k # 0 => /\ ret = ValidateAt(Prev, Moves, k)
                         /\ state_stack = before
        IN  atomic(FirstFailure(Prev, Moves))

\* A two-move Turn whose first move is valid and whose second is refused.
C1_Witness ==
    /\ Validating
    /\ Len(Moves) >= 2
    /\ FirstFailure(Prev, Moves) = 2
    /\ ret = "DestinationOccupied"
    /\ state_stack = before

\* C2: the state stack never becomes empty and its bottom element is always
\* the state the Board was created with.
C2_StackKeepsInitialState ==
    /\ Len(state_stack) >= 1
    /\ state_stack[1] = initial_state

\* pop_turn was called on a Board holding only its initial state.
C2_Witness ==
    /\ op = "pop_turn"
    /\ Len(before) = 1
    /\ ret = "None"
    /\ state_stack = <<initial_state>>

\* C3: a successful push_turn pushes exactly one state, whose active player
\* is the other player than that of the previous top state, however many
\* moves the Turn has; every value the working state takes while the moves
\* are applied has the mover as its active player.
C3_OnePushOneFlip ==
    Pushed =>
        LET stays(work) ==
                \A j \in 1..Len(work) :
                    work[j].active_player = Prev.active_player
        IN  /\ Len(state_stack) = Len(before) + 1
            /\ SubSeq(state_stack, 1, Len(before)) = before
            /\ current_state(state_stack).active_player
                   = Other(Prev.active_player)
            /\ Len(push_turn_loop(<<Prev>>, Moves, 1).work) = Len(Moves) + 1
            /\ stays(push_turn_loop(<<Prev>>, Moves, 1).work)

\* A successful Turn of several moves, each starting where the one before it
\* landed.
C3_Witness ==
    /\ Pushed
    /\ Len(Moves) >= 2
    /\ \A k \in 2..Len(Moves) : Moves[k].source = Moves[k - 1].destination
    /\ ~is_piece(Prev, Moves[2].source)

\* C4: move k of a Turn is validated against the working state that moves
\* 1..k-1 produced.  push_turn succeeds exactly when every move is valid on
\* the state left by the moves before it, and a move reached by the loop
\* whose source an earlier move of the Turn vacated (no move in between
\* landing on it) fails with NoPieceAtSource.
Vacated(moves, k) ==
    \E j \in 1..(k - 1) :
        /\ moves[j].source = moves[k].source
        /\ \A i \in (j + 1)..(k - 1) : moves[i].destination # moves[k].source

C4_MovesSeeEarlierMoves ==
    Validating =>
        /\ (ret = "Ok") = (FirstFailure(Prev, Moves) = 0)
        /\ \A k \in 1..Len(Moves) :
               (FirstFailure(Prev, Moves) = k /\ Vacated(Moves, k))
                   => ret = "NoPieceAtSource"

\* The second move of a Turn starts from the square its first move left.
C4_Witness ==
    /\ Validating
    /\ Len(Moves) >= 2
    /\ FirstFailure(Prev, Moves) = 2
    /\ Vacated(Moves, 2)
    /\ is_current_player_piece(Prev, Moves[2].source)
    /\ ret = "NoPieceAtSource"

\* C5: validate reports the first failing check in a fixed order:
\* NoPieceAtSource when neither player has a piece on the source, else
\* WrongPlayerPiece when the source piece is not the active player's, else
\* IllegalDestination when the destination is not a pseudo-legal destination
\* of the source for that piece's kind, else DestinationOccupied when a piece
\* is on the destination, else Ok.  Checked on every one-move Turn pushed
\* and on every move of the input squares in every current state.
FirstFailingCheck(s, m) ==
    IF m.source \notin (s.red_pieces \cup s.black_pieces)
    THEN "NoPieceAtSource"
    ELSE IF m.source \notin pieces_by_player(s, s.active_player)
    THEN "WrongPlayerPiece"
    ELSE IF m.destination
                \notin get_move_bitboard(s, s.active_player, m.source)
    THEN "IllegalDestination"
    ELSE IF m.destination \in (s.red_pieces \cup s.black_pieces)
    THEN "DestinationOccupied"
    ELSE "Ok"

C5_ValidateOrder ==
    /\ (Validating /\ Len(Moves) = 1)
           => ret = FirstFailingCheck(Prev, Moves[1])
    /\ \A a \in InputSquares, b \in InputSquares :
           validate(current_state(state_stack), Move_from_squares(a, b))
               = FirstFailingCheck(current_state(state_stack),
                                   Move_from_squares(a, b))

\* A move to an occupied square that is no pseudo-legal destination is
\* refused as IllegalDestination, not as DestinationOccupied.
C5_Witness ==
    /\ Validating
    /\ Len(Moves) = 1
    /\ is_current_player_piece(Prev, Moves[1].source)
    /\ Moves[1].destination # Moves[1].source
    /\ is_piece(Prev, Moves[1].destination)
    /\ ret = "IllegalDestination"

\* C6: a jump is accepted only if the cell midway between its source and its
\* destination holds a piece of the opponent of the active player.
C6_JumpNeedsOpponentBetween ==
    (Pushed /\ Len(Moves) = 1 /\ IsJump(Moves[1]))
        => Midpoint(Moves[1]) \in pieces_by_player(Prev, Other(Prev.active_player))

\* C7: after a successful push_turn of a jump by player P over a cell that
\* holds an opponent piece, the pushed state has that cell removed from the
\* opponent's pieces and from kings, and P's piece is on the destination and
\* no longer on the source.
C7_JumpCaptures ==
    (/\ Pushed
     /\ Len(Moves) = 1
     /\ IsJump(Moves[1])
     /\ Midpoint(Moves[1]) \in pieces_by_player(Prev, Other(Prev.active_player)))
        => LET new == current_state(state_stack)
           IN  /\ Midpoint(Moves[1])
                      \notin pieces_by_player(new, Other(Prev.active_player))
               /\ Midpoint(Moves[1]) \notin new.kings
               /\ Moves[1].destination
                      \in pieces_by_player(new, Prev.active_player)
               /\ Moves[1].source
                      \notin pieces_by_player(new, Prev.active_player)

\* C8: after a successful push_turn whose last move ends on the mover's
\* farthest row, the destination is in kings of the pushed state.
C8_PromotionOnFarthestRow ==
    (/\ Pushed
     /\ Len(Moves) >= 1
     /\ Row(Moves[Len(Moves)].destination) = FarthestRow(Prev.active_player))
        => Moves[Len(Moves)].destination \in current_state(state_stack).kings

\* C9: after a successful push_turn of one single-step move s->d by the
\* active player P, P's pieces are the previous ones with s removed and d
\* added, the opponent's pieces and kings are those of the previous state,
\* and each player has as many pieces as before.
C9_SingleStepFrame ==
    (Pushed /\ Len(Moves) = 1 /\ IsStep(Moves[1])) =>
        LET new == current_state(state_stack)
            P == Prev.active_player
        IN  /\ pieces_by_player(new, P)
                   = (pieces_by_player(Prev, P) \ {Moves[1].source})
                         \cup {Moves[1].destination}
            /\ Moves[1].source \in pieces_by_player(Prev, P)
            /\ Moves[1].destination \notin pieces_by_player(Prev, P)
            /\ pieces_by_player(new, Other(P))
                   = pieces_by_player(Prev, Other(P))
            /\ new.kings = Prev.kings
            /\ Cardinality(new.red_pieces) = Cardinality(Prev.red_pieces)
            /\ Cardinality(new.black_pieces) = Cardinality(Prev.black_pieces)

\* A single step was pushed on a position holding pieces of both players.
C9_Witness ==
    /\ Pushed
    /\ Len(Moves) = 1
    /\ IsStep(Moves[1])
    /\ Prev.red_pieces # {}
    /\ Prev.black_pieces # {}
    /\ Moves[1].destination
           \in pieces_by_player(current_state(state_stack), Prev.active_player)

\* C10: in every state on the stack, red_pieces and black_pieces have no
\* cell in common.
C10_PiecesDisjoint ==
    \A i \in 1..Len(state_stack) :
        state_stack[i].red_pieces \cap state_stack[i].black_pieces = {}

\* A move onto a square held by the opponent was refused on a Board that
\* already holds pushed states.
C10_Witness ==
    /\ Validating
    /\ Len(before) >= 2
    /\ Len(Moves) = 1
    /\ Moves[1].destination
           \in pieces_by_player(Prev, Other(Prev.active_player))
    /\ ret = "DestinationOccupied"
    /\ state_stack = before

HasAcceptedMove(s) ==
    \E c \in current_player_pieces(s), d \in 0..63 :
        validate(s, [source |-> c, destination |-> d]) = "Ok"

\* C12: status() is OnGoing exactly when the active player has a piece and a
\* destination that validate accepts on the current state, and is otherwise
\* Complete with the other player as winner; a Board without pieces is
\* Complete.  When the status is OnGoing the accepted move is shown to exist
\* by the move MoveIter finds; when it is Complete every cell of the player
\* is tried with every destination.  push_turn, which asks status() first,
\* returns GameConcluded exactly when the status of the Board it was called
\* on was Complete.
C12_StatusIffAcceptedMove ==
    LET agrees(s, st, found) ==
            /\ st.kind \in {"OnGoing", "Complete"}
            /\ st.kind = "OnGoing"
                   => /\ found # <<>>
                      /\ found[1].source \in current_player_pieces(s)
                      /\ validate(s, found[1]) = "Ok"
            /\ st.kind = "Complete"
                   => /\ ~HasAcceptedMove(s)
                      /\ st.winner = Other(s.active_player)
            /\ all_pieces(s) = {} => st.kind = "Complete"
        first(s) == MoveIter_next(s, MoveIter_new(s, s.active_player)).item
    IN  /\ agrees(current_state(state_stack), status(state_stack),
                  first(current_state(state_stack)))
        /\ op = "push_turn"
               => (ret = "GameConcluded") = (status(before).kind = "Complete")

\* push_turn was refused on a Board without pieces, whose status is Complete
\* with Red, the player not to move, as winner.
C12_Witness ==
    /\ op = "push_turn"
    /\ ret = "GameConcluded"
    /\ all_pieces(Prev) = {}
    /\ Prev.active_player = "Black"
    /\ status(state_stack) = [kind |-> "Complete", winner |-> "Red"]

\* C13: on a Board whose status is Complete, push_turn returns GameConcluded
\* whatever its argument is and leaves the stack as it was; a call that
\* changes the stack of such a Board is a pop_turn.
C13_ConcludedRefusesEveryTurn ==
    is_game_concluded(before) =>
        /\ op = "push_turn" => (ret = "GameConcluded" /\ state_stack = before)
        /\ state_stack # before => op = "pop_turn"

\* A notation that names no square was given to a Board that a pushed Turn
\* had concluded.
C13_Witness ==
    /\ op = "push_turn"
    /\ Len(before) >= 2
    /\ is_game_concluded(before)
    /\ ~Turn_try_into(turn).ok
    /\ ret = "GameConcluded"
    /\ state_stack = before

\* C14: pop_turn on a stack of depth 1 returns None and leaves the stack as
\* it was; on a stack of depth n > 1 it returns the former top state and
\* leaves the first n-1 states.
C14_PopTurnResult ==
    op = "pop_turn" =>
        IF Len(before) = 1
        THEN /\ ret = "None"
             /\ popped = <<>>
             /\ state_stack = before
        ELSE /\ ret = "Some"
             /\ popped = <<before[Len(before)]>>
             /\ state_stack = SubSeq(before, 1, Len(before) - 1)

\* pop_turn was called on a stack of three or more states.
C14_Witness ==
    /\ op = "pop_turn"
    /\ Len(before) >= 3
    /\ ret = "Some"
    /\ Len(state_stack) = Len(before) - 1
    /\ state_stack[1] = before[1]
    /\ state_stack[2] = before[2]

\* C15: a pop_turn that follows a successful push_turn returns the state the
\* push_turn produced and leaves the stack, and so current_state(), as they
\* were before the push.  Every successful push_turn appends one state to
\* the stack as it was and every pop_turn that returns a state removes the
\* last one, so k pushes followed by k pops restore the stack.
C15_PushPopRoundTrip ==
    [][/\ (Pushed /\ op' = "pop_turn")
           => /\ popped' = <<current_state(state_stack)>>
              /\ state_stack' = before
              /\ current_state(state_stack') = Prev
       /\ (op' = "push_turn" /\ ret' = "Ok")
           => /\ Len(state_stack') = Len(state_stack) + 1
              /\ SubSeq(state_stack', 1, Len(state_stack)) = state_stack
       /\ (op' = "pop_turn" /\ ret' = "Some")
           => state_stack = state_stack' \o popped']_vars

\* A pop_turn gave back the state a push_turn had put on the initial state
\* and left the Board as it was created.
C15_Witness ==
    /\ op = "pop_turn"
    /\ ret = "Some"
    /\ Len(popped) = 1
    /\ popped[1].active_player = Other(initial_state.active_player)
    /\ all_pieces(popped[1]) # all_pieces(initial_state)
    /\ state_stack = <<initial_state>>

\* The Moves (c, d) with c a cell of the player's pieces, d a pseudo-legal
\* destination of c and validate accepting (c, d) on s.
AcceptedMoves(s, player) ==
    {m \in [source : pieces_by_player(s, player), destination : 0..63] :
        /\ m.destination \in get_move_bitboard(s, player, m.source)
        /\ validate(s, m) = "Ok"}

\* C16: the Moves that MoveIter::next returns until it returns None are the
\* Moves (c, d) of the player's cells c and their pseudo-legal destinations
\* d that validate accepts, each one once.
C16_MoveIterYieldsEveryMove ==
    exhausted =>
        /\ {yielded[i] : i \in 1..Len(yielded)}
               = AcceptedMoves(current_state(state_stack), move_iter.player)
        /\ \A i, j \in 1..Len(yielded) : yielded[i] = yielded[j] => i = j

\* C17: on the starting position MoveIter returns exactly 7 Moves for Black
\* and exactly 7 Moves for Red.
C17_SevenOpeningMoves ==
    (exhausted /\ current_state(state_stack) = BoardState_default)
        => Len(yielded) = 7

\* C18: every Move that MoveIter returns starts on a cell of the player's
\* pieces and is accepted by validate on the state; when the player is the
\* active one, push_turn of the Turn made of that Move succeeds.
C18_YieldedMovesAreValid ==
    LET sound(s, player, concluded) ==
            \A i \in 1..Len(yielded) :
                /\ yielded[i].source \in pieces_by_player(s, player)
                /\ validate(s, yielded[i]) = "Ok"
                /\ player = s.active_player
                       => push_turn(state_stack,
                                    [kind |-> "array",
                                     segs |-> << <<yielded[i].source,
                                                   yielded[i].destination>> >>],
                                    concluded).ret = "Ok"
    IN  sound(current_state(state_stack), move_iter.player,
              is_game_concluded(state_stack))

\* MoveIter ran to its end for the active player of a Board that holds a
\* pushed Turn and returned several Moves.
C18_Witness ==
    /\ exhausted
    /\ Len(state_stack) = 2
    /\ move_iter.player = current_state(state_stack).active_player
    /\ Len(yielded) >= 2

\* The on-board cells one and two diagonal steps from a cell in the forward
\* direction of a player: toward byte 7 (squares 1..4) for Red, toward byte 0
\* (squares 29..32) for Black.
Forward(player) == IF player = "Red" THEN 1 ELSE 0 - 1

DiagonalCells(player, cell) ==
    {d \in 0..63 :
        \E k \in {1, 2} :
            /\ Row(d) - Row(cell) = k * Forward(player)
            /\ Abs(Col(d) - Col(cell)) = k}

\* DiagonalCells as a table, and the comparison of the two tables of the
\* pieces that are no kings with it, square by square.
ForwardDiagonals ==
    [player \in {"Red", "Black"} |->
        [cell \in 0..63 |-> DiagonalCells(player, cell)]]

TablesMatchDiagonals ==
    \A sq \in 1..32 :
        /\ RED_PIECE_MOVES[sq] = DiagonalCells("Red", MonoBitBoard_from(sq))
        /\ BLACK_PIECE_MOVES[sq] = DiagonalCells("Black", MonoBitBoard_from(sq))
        /\ \A d \in RED_PIECE_MOVES[sq] :
               Square_try_from_cell(d) \in 1..(sq - 1)
        /\ \A d \in BLACK_PIECE_MOVES[sq] :
               Square_try_from_cell(d) \in (sq + 1)..32

\* C19: the pseudo-legal destinations of a king are the one- and two-step
\* diagonal cells in all four directions, the union of the red and the
\* black destinations of its square; so a king of the active player with an
\* empty diagonally adjacent cell has a move that validate accepts.
C19_KingsMoveInAllDirections ==
    LET holds(s) ==
            /\ \A c \in s.kings, player \in {"Red", "Black"} :
                   get_move_bitboard(s, player, c)
                       = DiagonalCells("Red", c) \cup DiagonalCells("Black", c)
            /\ \A c \in s.kings \cap current_player_pieces(s), d \in 0..63 :
                   (/\ IsStep([source |-> c, destination |-> d])
                    /\ d \notin all_pieces(s))
                       => validate(s, [source |-> c, destination |-> d]) = "Ok"
    IN  holds(current_state(state_stack))

\* C20: for each of the 32 squares, the destinations of a red and of a black
\* piece are exactly the on-board cells one and two diagonal steps forward
\* of the square; each is a playable square, of a higher number for Black
\* and of a lower number for Red; and those are the destinations the
\* generator gives for every piece on the board that is not a king.
C20_TablesAreForwardDiagonals ==
    /\ TablesMatchDiagonals
    /\ LET holds(s) ==
               \A player \in {"Red", "Black"} :
                   \A c \in pieces_by_player(s, player) \ s.kings :
                       get_move_bitboard(s, player, c)
                           = ForwardDiagonals[player][c]
       IN  holds(current_state(state_stack))

\* A move that starts on the left or the right edge of the board was pushed.
C20_Witness ==
    /\ Pushed
    /\ Len(Moves) = 1
    /\ Col(Moves[1].source) \in {0, 7}
    /\ Moves[1].destination
           \in DiagonalCells(Prev.active_player, Moves[1].source)

\* ------------------------------------------ constructors and conversions
\* One constructor or conversion is called once on one input.
ConvInit == NoBoardCall /\ NothingCalled

\* The bitboards given to MonoBitBoard::new and to used_cells.
BoardBits == {0, 1, 31, 62, 63}
BitBoards == SUBSET BoardBits

\* MonoBitBoard::new(value)
MonoBitBoardNew ==
    /\ calls = <<>>
    /\ \E value \in BitBoards :
           /\ calls' = <<[fn |-> "MonoBitBoard::new", arg |-> value]>>
           /\ result' = MonoBitBoard_new(value)
    /\ UNCHANGED <<board_vars, builder>>

\* MonoBitBoard::try_from(bitboard)
MonoBitBoardTryFrom ==
    /\ calls = <<>>
    /\ \E bitboard \in BitBoards :
           /\ calls' = <<[fn |-> "MonoBitBoard::try_from", arg |-> bitboard]>>
           /\ result' = MonoBitBoard_try_from(bitboard)
    /\ UNCHANGED <<board_vars, builder>>

\* bitboard.used_cells(), drained
UsedCells ==
    /\ calls = <<>>
    /\ \E bitboard \in BitBoards :
           /\ calls' = <<[fn |-> "used_cells", arg |-> bitboard]>>
           /\ result' = [ok |-> TRUE, cells |-> used_cells(bitboard)]
    /\ UNCHANGED <<board_vars, builder>>

\* Square::try_from(MonoBitBoard::from(square))
SquareFromOwnCell ==
    /\ calls = <<>>
    /\ \E square \in 1..32 :
           /\ calls' = <<[fn |-> "Square::try_from(MonoBitBoard::from)",
                          arg |-> square]>>
           /\ result' = [ok |-> Square_try_from_cell(
                                    MonoBitBoard_from(square)) # 0,
                         cell |-> MonoBitBoard_from(square),
                         square |-> Square_try_from_cell(
                                        MonoBitBoard_from(square))]
    /\ UNCHANGED <<board_vars, builder>>

\* Square::try_from(cell) for a MonoBitBoard of any one bit
SquareFromCell ==
    /\ calls = <<>>
    /\ \E cell \in 0..63 :
           /\ calls' = <<[fn |-> "Square::try_from(MonoBitBoard)",
                          arg |-> cell]>>
           /\ result' = [ok |-> Square_try_from_cell(cell) # 0,
                         square |-> Square_try_from_cell(cell)]
    /\ UNCHANGED <<board_vars, builder>>

\* Every text of at most n characters of an alphabet.
TextsUpTo(alphabet, n) == UNION {[1..k -> alphabet] : k \in 0..n}

\* Square::try_from(value) for a u8
SquareFromNumber ==
    /\ calls = <<>>
    /\ \E value \in 0..255 :
           /\ calls' = <<[fn |-> "Square::try_from(u8)", arg |-> value]>>
           /\ result' =
                  IF Square_try_from_u8(value) = 0
                  THEN [ok |-> FALSE, err |-> "OutOfRange"]
                  ELSE [ok |-> TRUE, square |-> Square_try_from_u8(value),
                        number |-> Square_to_number(
                                       Square_try_from_u8(value))]
    /\ UNCHANGED <<board_vars, builder>>

\* The texts given to Square::try_from.
SquareChars == {"0", "2", "3", "5", "6", "a", "+"}
SquareTexts == TextsUpTo(SquareChars, MaxSquareTextLen)

\* Square::try_from(text)
SquareFromText ==
    /\ calls = <<>>
    /\ \E text \in SquareTexts :
           /\ calls' = <<[fn |-> "Square::try_from(&str)", arg |-> text]>>
           /\ result' = Square_try_from_str(text)
    /\ UNCHANGED <<board_vars, builder>>

\* The squares and cells given to the constructors of Move.
MoveSquares == {5, 9, 14}
MoveCells == {0, 55, 46}

\* Move::new(source, destination)
MoveNew ==
    /\ calls = <<>>
    /\ \E source \in MoveCells, destination \in MoveCells :
           /\ calls' = <<[fn |-> "Move::new",
                          arg |-> <<source, destination>>]>>
           /\ result' = [ok |-> TRUE, move |-> Move_new(source, destination)]
    /\ UNCHANGED <<board_vars, builder>>

\* Move::from_squares(source, destination)
MoveFromSquares ==
    /\ calls = <<>>
    /\ \E source \in MoveSquares, destination \in MoveSquares :
           /\ calls' = <<[fn |-> "Move::from_squares",
                          arg |-> <<source, destination>>]>>
           /\ result' = [ok |-> TRUE,
                         move |-> Move_from_squares(source, destination)]
    /\ UNCHANGED <<board_vars, builder>>

\* Move::try_from((source, destination)) for two MonoBitBoards
MoveTryFromCells ==
    /\ calls = <<>>
    /\ \E value \in MoveCells \X MoveCells :
           /\ calls' = <<[fn |-> "Move::try_from(MonoBitBoards)",
                          arg |-> value]>>
           /\ result' = Move_try_from_cells(value)
    /\ UNCHANGED <<board_vars, builder>>

\* Move::try_from((source, destination)) for two Squares
MoveTryFromSquares ==
    /\ calls = <<>>
    /\ \E value \in MoveSquares \X MoveSquares :
           /\ calls' = <<[fn |-> "Move::try_from(Squares)", arg |-> value]>>
           /\ result' = Move_try_from_squares(value)
    /\ UNCHANGED <<board_vars, builder>>

\* The texts given to Move::from_notation: two texts of number characters
\* around a text that is, or is not, a separator.
NumberChars == {"0", "1", "9", "a"}
NumberTexts == TextsUpTo(NumberChars, MaxNumberLen)
SeparatorTexts == {<<>>, <<"-">>, <<"x">>, <<"X">>, <<"x", "x">>, <<"/">>}
MoveTexts ==
    {source \o sep \o dest :
         source \in NumberTexts, sep \in SeparatorTexts,
         dest \in NumberTexts}

\* Move::from_notation(text)
MoveFromNotation ==
    /\ calls = <<>>
    /\ \E text \in MoveTexts :
           /\ calls' = <<[fn |-> "Move::from_notation", arg |-> text]>>
           /\ result' = Move_try_from_str(text)
    /\ UNCHANGED <<board_vars, builder>>

\* The segments the texts given to Turn::from_notation are made of:
\* "9x14", "14-18", "90x1", "a" and "".
SegmentTexts ==
    { <<"9", "x", "1", "4">>, <<"1", "4", "-", "1", "8">>,
      <<"9", "0", "x", "1">>, <<"a">>, <<>> }

SegmentLists ==
    UNION {[1..k -> SegmentTexts] : k \in 0..MaxSegments}

\* The segments of a list with a ',' between them.
RECURSIVE join(_)
join(segments) ==
    IF Len(segments) = 1 THEN segments[1]
    ELSE segments[1] \o <<",">> \o join(Tail(segments))

TurnTexts == {join(segments) : segments \in SegmentLists \ {<<>>}}

\* Turn::from_notation(text)
TurnFromNotation ==
    /\ calls = <<>>
    /\ \E text \in TurnTexts :
           /\ calls' = <<[fn |-> "Turn::from_notation", arg |-> text]>>
           /\ result' = Turn_try_from_str(text)
    /\ UNCHANGED <<board_vars, builder>>

\* Turn::new(moves) for an iterable of notation texts
TurnNewFromTexts ==
    /\ calls = <<>>
    /\ \E moves \in SegmentLists :
           /\ calls' = <<[fn |-> "Turn::new(texts)", arg |-> moves]>>
           /\ result' = Turn_new(Items("&str", moves))
    /\ UNCHANGED <<board_vars, builder>>

\* Turn::new(moves) for an iterable of pairs of Squares
TurnNewFromSquares ==
    /\ calls = <<>>
    /\ \E moves \in UNION {[1..k -> MoveSquares \X MoveSquares] :
                               k \in 0..MaxSegments} :
           /\ calls' = <<[fn |-> "Turn::new(squares)", arg |-> moves]>>
           /\ result' = Turn_new(Items("(Square, Square)", moves))
    /\ UNCHANGED <<board_vars, builder>>

\* Turn::try_from(moves) for an array of Moves
TurnTryFromArray ==
    /\ calls = <<>>
    /\ \E squares \in UNION {[1..k -> MoveSquares \X MoveSquares] :
                                 k \in 0..MaxSegments} :
           /\ calls' = <<[fn |-> "Turn::try_from(array)", arg |-> squares]>>
           /\ result' = Turn_try_from_array(
                             [i \in 1..Len(squares) |->
                                 Move_from_squares(squares[i][1],
                                                   squares[i][2])])
    /\ UNCHANGED <<board_vars, builder>>

\* Move::from_squares(source, destination).capture()
MoveCapture ==
    /\ calls = <<>>
    /\ \E source \in 1..32, destination \in 1..32 :
           /\ calls' = <<[fn |-> "Move::capture",
                          arg |-> <<source, destination>>]>>
           /\ result' = [ok |-> TRUE,
                         capture |-> capture(Move_from_squares(source,
                                                               destination))]
    /\ UNCHANGED <<board_vars, builder>>

\* MoveGenerator::new(&BoardState::empty(), player).moves_by_cell(cell),
\* drained, for the cell of a square
MovesByCell ==
    /\ calls = <<>>
    /\ \E player \in Players, square \in 1..32 :
           /\ calls' = <<[fn |-> "moves_by_cell",
                          arg |-> [player |-> player, square |-> square]]>>
           /\ result' = [ok |-> TRUE,
                         cells |-> moves_by_cell(BoardState_empty, player,
                                                 MonoBitBoard_from(square))]
    /\ UNCHANGED <<board_vars, builder>>

ConvNext ==
    \/ MovesByCell
    \/ MoveCapture
    \/ TurnFromNotation
    \/ TurnNewFromTexts
    \/ TurnNewFromSquares
    \/ TurnTryFromArray
    \/ MoveNew
    \/ MoveFromSquares
    \/ MoveTryFromCells
    \/ MoveTryFromSquares
    \/ MoveFromNotation
    \/ SquareFromNumber
    \/ SquareFromText
    \/ MonoBitBoardNew
    \/ MonoBitBoardTryFrom
    \/ UsedCells
    \/ SquareFromOwnCell
    \/ SquareFromCell

ConvSpec == ConvInit /\ [][ConvNext]_vars

\* The placements a sequence of builder calls makes, in order, and the
\* squares they give to a player or to the kings.
RECURSIVE PlacementCalls(_)
PlacementCalls(log) ==
    IF log = <<>> THEN <<>>
    ELSE IF log[1].fn = "current_player" THEN PlacementCalls(Tail(log))
    ELSE <<log[1]>> \o PlacementCalls(Tail(log))

Built == result # NoResult

PlacedFor(player) ==
    {MonoBitBoard_from(c.square) :
         c \in {x \in {calls[i] : i \in 1..Len(calls)} :
                   x.fn \in {"piece", "king"} /\ x.player = player}}

PlacedKings ==
    {MonoBitBoard_from(c.square) :
         c \in {x \in {calls[i] : i \in 1..Len(calls)} : x.fn = "king"}}

\* The player of the last current_player call, Black when there is none.
LastCurrentPlayer ==
    LET set == {i \in 1..Len(calls) : calls[i].fn = "current_player"}
    IN  IF set = {} THEN "Black"
        ELSE calls[CHOOSE i \in set : \A j \in set : j <= i].player

\* C21: build() returns DuplicateAssignments exactly when two of the
\* placements made name the same square, whatever their players and king
\* flags; no Board is produced then, and otherwise build() succeeds.
C21_DuplicateAssignmentsIff ==
    Built =>
        LET twice(placed) ==
                \E i, j \in 1..Len(placed) :
                    i # j /\ placed[i].square = placed[j].square
        IN  /\ ~result.ok = twice(PlacementCalls(calls))
            /\ ~result.ok => result.board = <<>>
            /\ result.ok => Len(result.board) = 1

\* build() refused a builder on which the same piece was placed twice.
C21_Witness ==
    /\ Built
    /\ ~result.ok
    /\ \E i, j \in 1..Len(calls) : i # j /\ calls[i] = calls[j]
                                      /\ calls[i].fn = "piece"

\* C22: a successful build() gives a Board of one state whose red_pieces
\* are the squares placed for Red, whose black_pieces are the squares placed
\* for Black, whose kings are the squares placed with king() and whose
\* active_player is the player of the last current_player call, Black when
\* there was none.
C22_BuildGivesPlacements ==
    (Built /\ result.ok) =>
        /\ Len(result.board) = 1
        /\ result.board[1].red_pieces = PlacedFor("Red")
        /\ result.board[1].black_pieces = PlacedFor("Black")
        /\ result.board[1].kings = PlacedKings
        /\ result.board[1].active_player = LastCurrentPlayer

\* A king was placed before a piece of the other player, and the current
\* player was set to Red after both.
C22_Witness ==
    /\ Built
    /\ result.ok
    /\ Len(calls) = 3
    /\ calls[1].fn = "king"
    /\ calls[2].fn = "piece"
    /\ calls[2].player # calls[1].player
    /\ calls[3] = [fn |-> "current_player", player |-> "Red"]
    /\ result.board[1].active_player = "Red"

\* The one call made is a call of fn.
Called(fn) == calls # <<>> /\ calls[1].fn = fn

\* C23: MonoBitBoard::new(v), and the conversion from a BitBoard of value
\* v, succeed exactly when v has one bit set, giving that bit; v = 0 is
\* refused without the subtraction v - 1 overflowing.
C23_MonoBitBoardIffOneBit ==
    (Called("MonoBitBoard::new") \/ Called("MonoBitBoard::try_from")) =>
        /\ result.ok = (Cardinality(calls[1].arg) = 1)
        /\ result.ok => calls[1].arg = {result.cell}
        /\ ~result.overflow

\* 0 was given and refused.
C23_Witness ==
    /\ Called("MonoBitBoard::new")
    /\ calls[1].arg = {}
    /\ ~result.ok

\* C24: used_cells() yields one cell for each set bit and no other, in
\* strictly ascending bit order; the cells together are the bitboard.
C24_UsedCellsAreTheSetBits ==
    Called("used_cells") =>
        /\ Len(result.cells) = Cardinality(calls[1].arg)
        /\ \A i \in 1..(Len(result.cells) - 1) :
               result.cells[i] < result.cells[i + 1]
        /\ {result.cells[i] : i \in 1..Len(result.cells)} = calls[1].arg

\* A bitboard with bit 0, bit 63 and bits between was drained.
C24_Witness ==
    /\ Called("used_cells")
    /\ {0, 63} \subseteq calls[1].arg
    /\ Len(result.cells) >= 3
    /\ result.cells[Len(result.cells)] = 63

\* C25: the 32 Squares have 32 different bits, converting the bit of a
\* Square back gives that Square, and converting any other single bit fails
\* with SquareConversionError.
C25_SquareBitsAreABijection ==
    /\ Called("Square::try_from(MonoBitBoard::from)") =>
           /\ result.ok
           /\ result.square = calls[1].arg
           /\ \A other \in 1..32 :
                  other # calls[1].arg
                      => MonoBitBoard_from(other) # result.cell
    /\ Called("Square::try_from(MonoBitBoard)") =>
           /\ result.ok
                  = (\E sq \in 1..32 : MonoBitBoard_from(sq) = calls[1].arg)
           /\ result.ok => MonoBitBoard_from(result.square) = calls[1].arg

\* Square Six went to its bit and back.
C25_Witness ==
    /\ Called("Square::try_from(MonoBitBoard::from)")
    /\ calls[1].arg = 6
    /\ result.square = 6
    /\ result.cell = 53

\* A text is decimal when it is one or more digits, and then denotes a
\* number.
IsDecimal(text) ==
    text # <<>> /\ \A i \in 1..Len(text) : is_digit(text[i])

RECURSIVE Denoted(_)
Denoted(text) ==
    IF text = <<>> THEN 0
    ELSE 10 * Denoted(SubSeq(text, 1, Len(text) - 1))
             + to_digit(text[Len(text)])

\* C26: Square::try_from(n) succeeds exactly for 1 <= n <= 32, to_number()
\* then returning n, and fails with OutOfRange otherwise;
\* Square::try_from(text) fails with OutOfRange for every decimal text
\* denoting a number outside 1..32 and with InvalidFormat only for text
\* that is not decimal.
C26_SquareFromNumberAndText ==
    /\ Called("Square::try_from(u8)") =>
           /\ result.ok = (calls[1].arg \in 1..32)
           /\ result.ok => result.number = calls[1].arg
           /\ ~result.ok => result.err = "OutOfRange"
    /\ Called("Square::try_from(&str)") =>
           /\ (IsDecimal(calls[1].arg) /\ Denoted(calls[1].arg) \notin 1..32)
                  => (~result.ok /\ result.err = "OutOfRange")
           /\ (~result.ok /\ result.err = "InvalidFormat")
                  => ~IsDecimal(calls[1].arg)

\* A number of the notation is a decimal text that does not start with 0.
IsNumber(text) == IsDecimal(text) /\ text[1] # "0"

\* The places of text where it is <number><sep><number>.
SeparatorPlaces(text) ==
    {p \in 1..Len(text) :
         /\ text[p] \in {"-", "x", "X"}
         /\ IsNumber(SubSeq(text, 1, p - 1))
         /\ IsNumber(SubSeq(text, p + 1, Len(text)))}

\* C27: Move::from_notation fails with InvalidFormat for every text that is
\* not <number><sep><number>; for such a text with both numbers in 1..32
\* it succeeds with the Move from the square of the first number to the
\* square of the second, whichever of the three separators is used.
C27_FromNotationGrammar ==
    Called("Move::from_notation") =>
        /\ SeparatorPlaces(calls[1].arg) = {}
               => (~result.ok /\ result.err = "InvalidFormat")
        /\ \A p \in SeparatorPlaces(calls[1].arg) :
               LET source == Denoted(SubSeq(calls[1].arg, 1, p - 1))
                   dest == Denoted(SubSeq(calls[1].arg, p + 1,
                                          Len(calls[1].arg)))
               IN  (source \in 1..32 /\ dest \in 1..32) =>
                       /\ result.ok
                       /\ result.move = [source |-> SquareBits[source],
                                          destination |-> SquareBits[dest]]

\* "10X9" was parsed into the Move from square 10 to square 9.
C27_Witness ==
    /\ Called("Move::from_notation")
    /\ calls[1].arg = <<"1", "0", "X", "9">>
    /\ result.ok
    /\ result.move = [source |-> 44, destination |-> 46]

\* C28: every Move made by Move::new, Move::from_squares,
\* Move::from_notation or the tuple conversions has a source different
\* from its destination.
C28_SourceDiffersFromDestination ==
    (/\ calls # <<>>
     /\ calls[1].fn \in {"Move::new", "Move::from_squares",
                          "Move::from_notation",
                          "Move::try_from(MonoBitBoards)",
                          "Move::try_from(Squares)"}
     /\ result.ok)
        => result.move.source # result.move.destination

\* C29: a Turn has at least one Move, so a successful push_turn applied at
\* least one move and the pieces of the player who moved are not what they
\* were before.
C29_PushTurnAppliesAMove ==
    Pushed =>
        /\ Len(Moves) >= 1
        /\ pieces_by_player(current_state(state_stack), Prev.active_player)
               # pieces_by_player(Prev, Prev.active_player)

\* The texts between the commas of a text, left to right.
Segments(text) ==
    LET commas == {p \in 1..Len(text) : text[p] = ","}
        bounds == {0, Len(text) + 1} \cup commas
        from(k) == CHOOSE p \in bounds :
                       Cardinality({q \in bounds : q < p}) = k - 1
    IN  [k \in 1..(Cardinality(commas) + 1) |->
            SubSeq(text, from(k) + 1, from(k + 1) - 1)]

\* The two numbers of a text that is <number><sep><number>.
NumberPair(text) ==
    LET p == CHOOSE q \in SeparatorPlaces(text) : TRUE
    IN  <<Denoted(SubSeq(text, 1, p - 1)),
          Denoted(SubSeq(text, p + 1, Len(text)))>>

\* C30: Turn::from_notation cuts the text at its commas; when every segment
\* parses, the Turn holds the Moves of the segments from left to right, as
\* Turn::new gives for the list of the segments and for the list of their
\* pairs of squares; otherwise the result is the error of the leftmost
\* segment that does not parse.
C30_FromNotationLeftToRight ==
    Called("Turn::from_notation") =>
        LET segments == Segments(calls[1].arg)
            parsed == [k \in 1..Len(segments) |->
                          Move_try_from_str(segments[k])]
            invalid == {k \in 1..Len(segments) : ~parsed[k].ok}
        IN  IF invalid = {}
            THEN /\ result.ok
                 /\ result.moves = [k \in 1..Len(segments) |-> parsed[k].move]
                 /\ result = Turn_new(Items("&str", segments))
                 /\ result = Turn_new(Items("(Square, Square)",
                                            [k \in 1..Len(segments) |->
                                                NumberPair(segments[k])]))
            ELSE /\ ~result.ok
                 /\ result = parsed[CHOOSE k \in invalid :
                                        \A j \in invalid : k <= j]

\* "90x1,a": the first segment is out of range and the second is no move
\* notation; the error is the first segment's.
C30_Witness ==
    /\ Called("Turn::from_notation")
    /\ calls[1].arg = <<"9", "0", "x", "1", ",", "a">>
    /\ ~result.ok
    /\ result.err = "OutOfRange"

\* C31: when the game is on and the argument of push_turn cannot be
\* converted to a Turn, push_turn returns InvalidConstruction and the state
\* stack is what it was; a call that returned InvalidConstruction changed
\* no stacked state.
C31_ConstructionErrorKeepsStack ==
    /\ (op = "push_turn" /\ ~Turn_try_into(turn).ok
            /\ ~is_game_concluded(before))
           => (ret = "InvalidConstruction" /\ state_stack = before)
    /\ (op = "push_turn" /\ ret = "InvalidConstruction")
           => state_stack = before

\* After a turn was pushed, the text "11x" was refused.
C31_Witness ==
    /\ op = "push_turn"
    /\ turn.kind = "text"
    /\ Len(before) >= 2
    /\ ret = "InvalidConstruction"
    /\ state_stack = before

\* The row and column of a square on the board of the standard numbering:
\* four squares a row, square 1 in the first row, the squares of the odd
\* rows one column further than those of the even rows.
SquareRow(square) == (square - 1) \div 4
SquareCol(square) ==
    2 * (3 - ((square - 1) % 4)) + (SquareRow(square) % 2)

\* Two squares n diagonal steps apart, and the squares between two squares.
StepsApart(a, b, n) ==
    /\ Abs(SquareRow(a) - SquareRow(b)) = n
    /\ Abs(SquareCol(a) - SquareCol(b)) = n

SquaresBetween(a, b) ==
    {c \in 1..32 : StepsApart(a, c, 1) /\ StepsApart(c, b, 1)}

C33_HistoryIsAppendOnly ==
    /\ Pushed =>
           /\ Len(state_stack) = Len(before) + 1
           /\ SubSeq(state_stack, 1, Len(before)) = before
    /\ (op = "push_turn" /\ ret # "Ok") => state_stack = before
    /\ op \in {"status", "is_game_concluded", "current_state", "validate"}
           => state_stack = before
    /\ op = "pop_turn" =>
           /\ Len(state_stack) >= Len(before) - 1
           /\ state_stack = SubSeq(before, 1, Len(state_stack))

\* A third state was pushed on two states that stayed as they were.
C33_Witness ==
    /\ Pushed
    /\ Len(before) = 2
    /\ Len(state_stack) = 3
    /\ state_stack[1] = before[1]
    /\ state_stack[2] = before[2]
    /\ state_stack[3].active_player # before[2].active_player

\* The bits that are the image of a Square.
SquareImage == {MonoBitBoard_from(square) : square \in 1..32}

\* C34: in every state on the stack of a Board made by Board::default,
\* Board::empty or a BoardBuilder and changed by push_turn and pop_turn,
\* red_pieces, black_pieces and kings hold only bits that are images of
\* Squares.
C34_OnlySquareBits ==
    \A i \in 1..Len(state_stack) :
        /\ state_stack[i].red_pieces \subseteq SquareImage
        /\ state_stack[i].black_pieces \subseteq SquareImage
        /\ state_stack[i].kings \subseteq SquareImage

\* After two turns were pushed, a Move of a piece to bit 0, the image of no
\* Square, was refused.
C34_Witness ==
    /\ op = "push_turn"
    /\ turn.kind = "array"
    /\ Len(turn.segs) = 1
    /\ turn.segs[1][2] \notin SquareImage
    /\ ret = "IllegalDestination"
    /\ Len(state_stack) >= 3

\* C35: kings_by_player gives, for each player, the cells that hold a piece
\* of that player and are in kings.
C35_KingsByPlayer ==
    \A player \in {"Red", "Black"} :
        kings_by_player(current_state(state_stack), player)
            = pieces_by_player(current_state(state_stack), player)
                  \cap current_state(state_stack).kings

\* C36: a square d is a destination of a piece of one player that is no
\* king and stands on square s exactly when s is a destination of such a
\* piece of the other player on d.
C36_TablesAreMirrorImages ==
    Called("moves_by_cell") =>
        LET s == calls[1].arg.square
            player == calls[1].arg.player
            destinations == {result.cells[i] : i \in 1..Len(result.cells)}
        IN  \A d \in 1..32 :
                (MonoBitBoard_from(d) \in destinations)
                    = (MonoBitBoard_from(s)
                           \in get_move_bitboard(BoardState_empty,
                                                 Other(player),
                                                 MonoBitBoard_from(d)))

\* The destinations of a red piece on square 10, square 1 among them, as
\* square 10 is among those of a black piece on square 1.
C36_Witness ==
    /\ Called("moves_by_cell")
    /\ calls[1].arg = [player |-> "Red", square |-> 10]
    /\ result.cells = <<51, 53, 58, 62>>
    /\ 44 \in BLACK_PIECE_MOVES[1]

\* C37: a run of successful push_turn calls with Turns that are not empty,
\* and without pop_turn, is finite: the status becomes Complete and stays
\* so, and from then on push_turn returns GameConcluded and leaves the
\* stack as it is.
C37_GamesEnd ==
    /\ <>[](is_game_concluded(state_stack))
    /\ []((op = "push_turn" /\ is_game_concluded(before))
              => (ret = "GameConcluded" /\ state_stack = before))

\* A game ended after three turns, and the turn offered next was refused.
C37_Witness ==
    /\ op = "push_turn"
    /\ ret = "GameConcluded"
    /\ Len(state_stack) >= 4
    /\ state_stack = before

====
